---- MODULE Spec2Model ----
(***************************************************************************)
(* Versioned model store of the forecasting backend.                       *)
(*                                                                         *)
(*   backend/app/utils/complexities.py   ComplexityMapper                  *)
(*   backend/app/utils/version.py        label, VersionManager             *)
(*                                                                         *)
(* Strings that the code only compares for equality (category names, user  *)
(* names, exception names) are TLA+ strings.  Version identifiers are      *)
(* ordered by Python's str comparison, so they are sequences of character  *)
(* codes (1..9) compared lexicographically; "" is <<>> and Python's None   *)
(* is the sequence <<0>>, which is no version identifier.                  *)
(***************************************************************************)
EXTENDS Integers, Sequences, FiniteSets, TLC

VARIABLES
    env,                  \* "local" | "s3": the backend the manager was built for
    models,               \* models/<dir>/<version>/model.pkl      : key -> bytes
    metadatas,            \* models/<dir>/<version>/metadata.json  : key -> document
    base_models,          \* models/<dir>.pkl                      : dir -> bytes
    active_versions_file, \* models/active_versions.json           : the document
    now,                  \* the wall clock read by datetime.now()
    last,                 \* the last call: its name, arguments, time and outcome
    calls,                \* the calls in flight, one per concurrent caller
    self_path             \* self.path: the one Path object of the manager

vars ==
    <<env, models, metadatas, base_models, active_versions_file, now, last, calls, self_path>>

---------------------------------------------------------------------------
(* Bounds of the model.                                                    *)

\* how many version identifiers of VersionPool callers use
MaxVersions == 2
\* how many (directory, version) pairs the backend may hold
MaxSaved == 2
\* how many registry entries may hold a non-empty version
MaxPinned == 2
\* the last clock value
MaxTime == 1
\* how many callers use the store at the same time
MaxCallers == 2
\* how many artifacts the callers that share the Path object may store
MaxPathSaved == 1

---------------------------------------------------------------------------
(* Values.                                                                 *)

None == <<0>>

Truthy(s) == s # None /\ s # <<>>

\* version identifiers as character strings: "2", "19", "1", "21"
VersionPool == << <<2>>, <<1, 9>>, <<1>>, <<2, 1>> >>

Versions == {VersionPool[i] : i \in 1..MaxVersions}

Min(a, b) == IF a < b THEN a ELSE b

\* Python's str.__lt__: lexicographic on the character codes
StrLess(a, b) ==
    \E i \in 1..(Min(Len(a), Len(b)) + 1) :
        /\ \A j \in 1..(i - 1) : a[j] = b[j]
        /\ \/ i = Len(a) + 1 /\ i <= Len(b)
           \/ i <= Len(a) /\ i <= Len(b) /\ a[i] < b[i]

Models == {"bytes1", "bytes2"}

Users == {"admin@example.com"}

Return(v) == [kind |-> "return", value |-> v]

Raise(e) == [kind |-> "raise", value |-> e]

\* joblib.dump / joblib.load of a picklable object
JoblibDump(model) == <<"joblib", model>>

JoblibLoad(bytes) == bytes[2]

\* datetime.isoformat()
IsoFormat(t) == <<t>>

---------------------------------------------------------------------------
(* ComplexityMapper.                                                       *)

\* the table with one label given to two real names
COMPLEXITY_ITEMS_shared_label ==
    << <<"Baja", "Baja">>,
       <<"Media", "Media">>,
       <<"Alta", "Alta">>,
       <<"Neonatología", "Neonatologia">>,
       <<"Pediatría", "Pediatria">>,
       <<"Inte. Pediátrico", "Pediatria">>,
       <<"Maternidad", "Maternidad">> >>

\* _COMPLEXITY_MAP, in source order: <<real name, label>>
COMPLEXITY_ITEMS ==
    << <<"Baja", "Baja">>,
       <<"Media", "Media">>,
       <<"Alta", "Alta">>,
       <<"Neonatología", "Neonatologia">>,
       <<"Pediatría", "Pediatria">>,
       <<"Inte. Pediátrico", "IntePediatrico">>,
       <<"Maternidad", "Maternidad">> >>

\* a dict built from items in order: a later item replaces an earlier one
\* with the same key
DictGet(items, key) ==
    LET hits == {i \in 1..Len(items) : items[i][1] = key}
    IN  items[CHOOSE i \in hits : \A j \in hits : j <= i][2]

DictKeys(items) == {items[i][1] : i \in 1..Len(items)}

COMPLEXITY_MAP_keys == DictKeys(COMPLEXITY_ITEMS)

\* {v: k for k, v in _COMPLEXITY_MAP.items()}
REVERSE_ITEMS ==
    [i \in 1..Len(COMPLEXITY_ITEMS) |->
        <<DictGet(COMPLEXITY_ITEMS, COMPLEXITY_ITEMS[i][1]), COMPLEXITY_ITEMS[i][1]>>]

REVERSE_MAP_keys == DictKeys(REVERSE_ITEMS)

to_label(real_name) ==
    IF real_name \notin COMPLEXITY_MAP_keys
    THEN Raise("ValueError")
    ELSE Return(DictGet(COMPLEXITY_ITEMS, real_name))

to_real_name(lbl) ==
    IF lbl \notin REVERSE_MAP_keys
    THEN Raise("ValueError")
    ELSE Return(DictGet(REVERSE_ITEMS, lbl))

is_valid_label(lbl) ==
    IF lbl \notin REVERSE_MAP_keys
    THEN Raise("HTTPException422")
    ELSE Return(TRUE)

is_valid_real_name(real_name) == Return(real_name \in COMPLEXITY_MAP_keys)

get_all_labels == REVERSE_MAP_keys

get_all_real_names == COMPLEXITY_MAP_keys

\* version.py label(): to_label, and the input itself when to_label raises
label(complexity) ==
    LET r == to_label(complexity)
    IN  IF r.kind = "raise" THEN complexity ELSE r.value

\* str.lower() of the strings callers pass that hold an upper-case letter:
\* <<string, its lower-cased form>>; every other string is its own lower case
LOWER_ITEMS ==
    << <<"Baja", "baja">>,
       <<"Media", "media">>,
       <<"Alta", "alta">>,
       <<"ALTA", "alta">>,
       <<"aLtA", "alta">>,
       <<"Neonatologia", "neonatologia">>,
       <<"NEONATOLOGIA", "neonatologia">>,
       <<"Neonatología", "neonatología">>,
       <<"Pediatria", "pediatria">>,
       <<"Pediatría", "pediatría">>,
       <<"IntePediatrico", "intepediatrico">>,
       <<"Inte. Pediátrico", "inte. pediátrico">>,
       <<"Maternidad", "maternidad">>,
       <<"Otra", "otra">> >>

Lower(s) == IF s \in DictKeys(LOWER_ITEMS) THEN DictGet(LOWER_ITEMS, s) ELSE s

\* the lookup that compares the input with the labels as they are written
parse_from_api_case_sensitive(api_input) ==
    LET hits == {i \in 1..Len(REVERSE_ITEMS) : REVERSE_ITEMS[i][1] = api_input}
    IN  IF hits = {} THEN Raise("ValueError")
        ELSE to_real_name(REVERSE_ITEMS[CHOOSE i \in hits : \A j \in hits : i <= j][1])

\* parse_from_api: the first label, in the order of _REVERSE_MAP, whose lower
\* case is the lower case of the input, converted by to_real_name
parse_from_api(api_input) ==
    LET hits == {i \in 1..Len(REVERSE_ITEMS) :
                    Lower(REVERSE_ITEMS[i][1]) = Lower(api_input)}
    IN  IF hits = {} THEN Raise("ValueError")
        ELSE to_real_name(REVERSE_ITEMS[CHOOSE i \in hits : \A j \in hits : i <= j][1])

\* names callers pass: real names, labels, labels in other letter cases,
\* unknown names
NameInputs ==
    COMPLEXITY_MAP_keys \cup REVERSE_MAP_keys \cup
    {"baja", "media", "alta", "neonatologia", "pediatria", "intepediatrico",
     "maternidad", "Otra", "ALTA", "aLtA", "NEONATOLOGIA", "neonatología", ""}

---------------------------------------------------------------------------
(* VersionManager: paths.                                                  *)

\* VersionManager.complexities
complexities == get_all_labels

\* category names the callers of the store pass
CategoryInputs == {"Alta", "Neonatología", "Neonatologia"}

\* Path.dir: models/<label(complexity)>
PathDir(complexity) == label(complexity)

\* Path.model: models/<dir>/<version>/model.pkl; ValueError when no version
PathModel(complexity, version) ==
    IF ~Truthy(version) THEN Raise("ValueError")
    ELSE Return(<<PathDir(complexity), version>>)

\* Path.metadata: models/<dir>/<version>/metadata.json
PathMetadata(complexity, version) ==
    IF ~Truthy(version) THEN Raise("ValueError")
    ELSE Return(<<PathDir(complexity), version>>)

\* Path.base_model: models/<label(complexity)>.pkl
PathBaseModel(complexity) == label(complexity)

---------------------------------------------------------------------------
(* VersionManager: reading the backend.                                    *)

\* dict.get(key, default)
DictGetOr(doc, key, default) == IF key \in DOMAIN doc THEN doc[key] ELSE default

\* an assignment that leaves a key the dict already holds as it is
DictSet_keep_existing(doc, key, value) ==
    [k \in DOMAIN doc \cup {key} |-> IF k \in DOMAIN doc THEN doc[k] ELSE value]

\* doc[key] = value
DictSet(doc, key, value) ==
    [k \in DOMAIN doc \cup {key} |-> IF k = key THEN value ELSE doc[k]]

\* a copy of the registry document kept from construction
ActiveVersions_cached ==
    [complexity \in complexities |->
        [version |-> <<>>, activated_at |-> <<>>, activated_by |-> ""]]

\* VersionManager._active_versions: the registry document, read on every use
ActiveVersions == active_versions_file

\* the entries of models/<dir>: a version directory exists once save_model
\* created it (os.makedirs) or wrote a key under it
ListDir(dir) == {k[2] : k \in {x \in DOMAIN models \cup DOMAIN metadatas : x[1] = dir}}

\* str.startswith between directory names: no modelled directory name is a
\* proper prefix of another
StartsWith(dir, prefix) == dir = prefix

\* the enumerations of a finite set
Perms(S) ==
    {p \in [1..Cardinality(S) -> S] : \A i, j \in 1..Cardinality(S) : i # j => p[i] # p[j]}

RECURSIVE SortedAscending(_)
\* the version identifiers of S in ascending str order
SortedAscending(S) ==
    IF S = {} THEN <<>>
    ELSE LET m == CHOOSE x \in S : \A y \in S : y = x \/ StrLess(x, y)
         IN  <<m>> \o SortedAscending(S \ {m})

\* get_complexity_versions, local branch: os.listdir returns the entries in
\* arbitrary order, so this is the set of lists the call may return
LocalVersions(complexity) ==
    LET dir == PathDir(complexity)
        found == {v \in ListDir(dir) : PathMetadata(complexity, v).value \in DOMAIN metadatas}
    IN  IF ListDir(dir) = {} THEN {<<>>}
        ELSE {[i \in 1..Cardinality(found) |-> metadatas[PathMetadata(complexity, p[i]).value]] :
                 p \in Perms(found)}

\* get_complexity_versions, S3 branch: list_objects_v2(Prefix=dir) returns the
\* keys in ascending order; those ending in metadata.json are read
S3Versions(complexity) ==
    LET prefix == PathDir(complexity)
        keys == {k \in DOMAIN metadatas : StartsWith(k[1], prefix)}
        order == SortedAscending({k[2] : k \in keys})
    IN  {[i \in 1..Len(order) |->
            metadatas[CHOOSE k \in keys : k[2] = order[i]]]}

\* get_complexity_versions: the lists the call may return
get_complexity_versions(complexity) ==
    IF env = "local" THEN LocalVersions(complexity) ELSE S3Versions(complexity)

RECURSIVE InsertReverse(_, _)
InsertReverse(x, s) ==
    IF s = <<>> THEN <<x>>
    ELSE IF StrLess(Head(s).version, x.version) THEN <<x>> \o s
    ELSE <<Head(s)>> \o InsertReverse(x, Tail(s))

RECURSIVE SortedReverse(_)
\* sorted(versions, key=lambda x: x.get("version", ""), reverse=True)
SortedReverse(versions) ==
    IF versions = <<>> THEN <<>>
    ELSE InsertReverse(versions[Len(versions)], SortedReverse(SubSeq(versions, 1, Len(versions) - 1)))

\* the first listed version, with the sort left out
get_latest_version_unsorted(versions) ==
    IF versions = <<>> THEN None
    ELSE versions[1].version

\* get_latest_version, given the list get_complexity_versions returned
get_latest_version(versions) ==
    IF versions = <<>> THEN None
    ELSE SortedReverse(versions)[1].version

\* get_active_version, given the list get_complexity_versions returns when asked
get_active_version(complexity, versions) ==
    LET entry == DictGetOr(ActiveVersions, complexity, [version |-> None])
        version == entry.version
    IN  IF ~Truthy(version) THEN get_latest_version(versions) ELSE version

\* _load_model_path, local branch
load_model_path_local(files, path) ==
    IF path \notin DOMAIN files
    THEN Raise("FileNotFoundError")
    ELSE Return(JoblibLoad(files[path]))

\* _load_model_path, S3 branch: it uses BytesIO, a name the module never
\* binds (it is imported inside save_model and _load_model only)
load_model_path_s3(files, path) == Raise("NameError")

load_model_path(files, path) ==
    IF env = "local"
    THEN load_model_path_local(files, path)
    ELSE load_model_path_s3(files, path)

\* _load_model
load_model(complexity, version) ==
    LET model_path == PathModel(complexity, version)
    IN  IF model_path.kind = "raise" THEN model_path
        ELSE load_model_path(models, model_path.value)

get_base_model(complexity) == load_model_path(base_models, PathBaseModel(complexity))

get_model(complexity, versions) ==
    LET version == get_active_version(complexity, versions)
    IN  IF ~Truthy(version) THEN get_base_model(complexity)
        ELSE load_model(complexity, version)

\* get_version_metadata: None when the document is absent, on both backends
get_version_metadata(complexity, version) ==
    LET metadata_path == PathMetadata(complexity, version)
    IN  IF metadata_path.kind = "raise" THEN metadata_path
        ELSE IF metadata_path.value \notin DOMAIN metadatas THEN Return(None)
        ELSE Return(metadatas[metadata_path.value])

---------------------------------------------------------------------------
(* Construction.                                                           *)

\* the document with the entry of one category left out
create_version_manager_one_short ==
    [complexity \in complexities \ {"Maternidad"} |->
        [version |-> <<>>, activated_at |-> <<>>, activated_by |-> ""]]

\* _create_version_manager: the document written when none exists
create_version_manager ==
    [complexity \in complexities |->
        [version |-> <<>>, activated_at |-> <<>>, activated_by |-> ""]]

\* the categories deployed with a base model (models/<label>.pkl); the
\* others have none
BaseDirs == {"Alta"}

Call(op, args, result) == [op |-> op, args |-> args, at |-> now, result |-> result]

\* the concurrent callers of the store (request handlers, the retrain job)
Callers == 1..MaxCallers

\* a caller with no call in flight
Idle == [op |-> "idle", args |-> <<>>, pc |-> "done", doc |-> <<>>, read |-> <<>>]

\* a manager built by __init__ on a backend that holds no version and no
\* registry document yet
Init ==
    /\ env \in {"local", "s3"}
    /\ models = <<>>
    /\ metadatas = <<>>
    /\ base_models = [d \in BaseDirs |-> JoblibDump("base")]
    /\ active_versions_file = create_version_manager
    /\ now = 0
    /\ last = [op |-> "__init__", args |-> <<>>, at |-> 0, result |-> Return(None)]
    /\ calls = [p \in Callers |-> Idle]
    /\ self_path = [complexity |-> None, version |-> None]

---------------------------------------------------------------------------
(* Operations that write.                                                  *)

\* the metadata a caller passes: retrain.save_prophet_model passes none with a
\* "version" key (metadata.get("version") is None)
MetadataInputs == [complexity : CategoryInputs, version : Versions \cup {None}]

\* the artifact key with the version directory left out of the path
SaveModelPath_no_version_dir(metadata) ==
    IF ~Truthy(metadata.version) THEN Raise("ValueError")
    ELSE Return(<<PathDir(metadata.complexity), VersionPool[1]>>)

\* the key save_model writes the artifact under
SaveModelPath(metadata) == PathModel(metadata.complexity, metadata.version)

\* the key save_model writes the metadata document under
SaveMetadataPath(metadata) == PathMetadata(metadata.complexity, metadata.version)

\* save_model: the paths are derived first (ValueError without a version),
\* then the artifact is written, then the metadata document
SaveModel(model, metadata) ==
    LET model_path == SaveModelPath(metadata)
        metadata_path == SaveMetadataPath(metadata)
    IN  IF model_path.kind = "raise"
        THEN /\ last' = Call("save_model", <<model, metadata>>, model_path)
             /\ UNCHANGED <<env, models, metadatas, base_models, active_versions_file, now, calls, self_path>>
        ELSE /\ Cardinality(DOMAIN models \cup {model_path.value}) <= MaxSaved
             /\ models' = DictSet(models, model_path.value, JoblibDump(model))
             /\ metadatas' = DictSet(metadatas, metadata_path.value, metadata)
             /\ last' = Call("save_model", <<model, metadata>>, Return(None))
             /\ UNCHANGED <<env, base_models, active_versions_file, now, calls, self_path>>

Pinned(doc) == {k \in DOMAIN doc : Truthy(doc[k].version)}

\* the document written from the empty registry instead of the one read
set_active_version_from_empty(complexity, version, user) ==
    DictSet(create_version_manager, complexity,
            [version |-> version, activated_at |-> IsoFormat(now), activated_by |-> user])

\* the document set_active_version writes
set_active_version(complexity, version, user) ==
    DictSet(ActiveVersions, complexity,
            [version |-> version, activated_at |-> IsoFormat(now), activated_by |-> user])

SetActiveVersion(complexity, version, user) ==
    /\ Cardinality(Pinned(set_active_version(complexity, version, user))) <= MaxPinned
    /\ active_versions_file' = set_active_version(complexity, version, user)
    /\ last' = Call("set_active_version", <<complexity, version, user>>, Return(None))
    /\ UNCHANGED <<env, models, metadatas, base_models, now, calls, self_path>>

\* the document holding the given keys only, the others emptied
set_active_versions_batch_only_given(versions_dict, user) ==
    LET active_versions == ActiveVersions
        timestamp == IsoFormat(now)
    IN  [k \in DOMAIN active_versions |->
            IF k \in DOMAIN versions_dict
            THEN [version |-> versions_dict[k], activated_at |-> timestamp,
                  activated_by |-> user]
            ELSE [version |-> <<>>, activated_at |-> timestamp, activated_by |-> user]]

\* the document set_active_versions_batch writes: only the keys the document
\* already has are assigned
set_active_versions_batch(versions_dict, user) ==
    LET active_versions == ActiveVersions
        timestamp == IsoFormat(now)
    IN  [k \in DOMAIN active_versions |->
            IF k \in DOMAIN versions_dict
            THEN [version |-> versions_dict[k], activated_at |-> timestamp,
                  activated_by |-> user]
            ELSE active_versions[k]]

\* the mappings callers pass to set_active_versions_batch
BatchInputs ==
    UNION {[D -> Versions] : D \in {X \in SUBSET CategoryInputs : Cardinality(X) \in {1, 2}}}

SetActiveVersionsBatch(versions_dict, user) ==
    /\ Cardinality(Pinned(set_active_versions_batch(versions_dict, user))) <= MaxPinned
    /\ active_versions_file' = set_active_versions_batch(versions_dict, user)
    /\ last' = Call("set_active_versions_batch", <<versions_dict, user>>, Return(None))
    /\ UNCHANGED <<env, models, metadatas, base_models, now, calls, self_path>>

\* time passes between calls
Tick ==
    /\ now < MaxTime
    /\ now' = now + 1
    /\ UNCHANGED <<env, models, metadatas, base_models, active_versions_file, last, calls, self_path>>

---------------------------------------------------------------------------
(* Operations that read.                                                   *)

store == <<env, models, metadatas, base_models, active_versions_file, now, calls, self_path>>

GetComplexityVersions(complexity) ==
    /\ \E versions \in get_complexity_versions(complexity) :
          last' = Call("get_complexity_versions", <<complexity>>, Return(versions))
    /\ UNCHANGED store

GetLatestVersion(complexity) ==
    /\ \E versions \in get_complexity_versions(complexity) :
          last' = Call("get_latest_version", <<complexity>>,
                       Return(get_latest_version(versions)))
    /\ UNCHANGED store

GetActiveVersion(complexity) ==
    /\ \E versions \in get_complexity_versions(complexity) :
          last' = Call("get_active_version", <<complexity>>,
                       Return(get_active_version(complexity, versions)))
    /\ UNCHANGED store

GetModel(complexity) ==
    /\ \E versions \in get_complexity_versions(complexity) :
          last' = Call("get_model", <<complexity>>, get_model(complexity, versions))
    /\ UNCHANGED store

GetVersionMetadata(complexity, version) ==
    /\ last' = Call("get_version_metadata", <<complexity, version>>,
                    get_version_metadata(complexity, version))
    /\ UNCHANGED store

Next ==
    \/ \E model \in Models, metadata \in MetadataInputs : SaveModel(model, metadata)
    \/ \E complexity \in CategoryInputs, version \in Versions, user \in Users :
          SetActiveVersion(complexity, version, user)
    \/ \E versions_dict \in BatchInputs, user \in Users :
          SetActiveVersionsBatch(versions_dict, user)
    \/ \E complexity \in CategoryInputs : GetComplexityVersions(complexity)
    \/ \E complexity \in CategoryInputs : GetLatestVersion(complexity)
    \/ \E complexity \in CategoryInputs : GetActiveVersion(complexity)
    \/ \E complexity \in CategoryInputs : GetModel(complexity)
    \/ \E complexity \in CategoryInputs, version \in Versions :
          GetVersionMetadata(complexity, version)

\* the store's operations, called within one reading of the clock
Spec == Init /\ [][Next]_vars

\* saves and listings as the clock advances
ClockNext ==
    \/ \E model \in Models, metadata \in MetadataInputs : SaveModel(model, metadata)
    \/ Tick
    \/ \E complexity \in CategoryInputs : GetComplexityVersions(complexity)

ClockSpec == Init /\ [][ClockNext]_vars

---------------------------------------------------------------------------
(* ComplexityMapper applied to the names callers pass.                     *)

ToLabel(name) ==
    /\ last' = Call("to_label", <<name>>, to_label(name))
    /\ UNCHANGED store

ToRealName(name) ==
    /\ last' = Call("to_real_name", <<name>>, to_real_name(name))
    /\ UNCHANGED store

IsValidLabel(name) ==
    /\ last' = Call("is_valid_label", <<name>>, is_valid_label(name))
    /\ UNCHANGED store

IsValidRealName(name) ==
    /\ last' = Call("is_valid_real_name", <<name>>, is_valid_real_name(name))
    /\ UNCHANGED store

Label(name) ==
    /\ last' = Call("label", <<name>>, Return(label(name)))
    /\ UNCHANGED store

ParseFromApi(name) ==
    /\ last' = Call("parse_from_api", <<name>>, parse_from_api(name))
    /\ UNCHANGED store

MapperNext ==
    \/ \E name \in NameInputs : ParseFromApi(name)
    \/ \E name \in NameInputs : ToLabel(name)
    \/ \E name \in NameInputs : ToRealName(name)
    \/ \E name \in NameInputs : IsValidLabel(name)
    \/ \E name \in NameInputs : IsValidRealName(name)
    \/ \E name \in NameInputs : Label(name)

MapperSpec == Init /\ [][MapperNext]_vars

---------------------------------------------------------------------------
(* Aggregate views.                                                        *)

\* get_versions: the listing of every complexity of VersionManager.complexities
\* (every choice of one listing per complexity; only the complexities whose
\* directory can be listed in more than one order are enumerated)
get_versions ==
    LET listings == [c \in complexities |-> get_complexity_versions(c)]
        several == {c \in complexities : Cardinality(listings[c]) > 1}
        choices == {g \in [several -> UNION {listings[c] : c \in several}] :
                       \A c \in several : g[c] \in listings[c]}
    IN  {[c \in complexities |->
             IF c \in several THEN g[c] ELSE CHOOSE v \in listings[c] : TRUE] :
            g \in choices}

\* the view that reports the registry entries as they are stored
get_active_versions_stored(listing) ==
    [c \in complexities |-> DictGetOr(ActiveVersions, c, [version |-> None]).version]

\* get_active_versions: get_active_version of every complexity of
\* VersionManager.complexities, each with its own listing
get_active_versions(listing) ==
    [c \in complexities |-> get_active_version(c, listing[c])]

GetVersions ==
    /\ \E result \in get_versions : last' = Call("get_versions", <<>>, Return(result))
    /\ UNCHANGED store

GetActiveVersions ==
    /\ \E listing \in get_versions :
          last' = Call("get_active_versions", <<>>, Return(get_active_versions(listing)))
    /\ UNCHANGED store

ViewNext ==
    \/ \E model \in Models, metadata \in MetadataInputs : SaveModel(model, metadata)
    \/ \E complexity \in CategoryInputs, version \in Versions, user \in Users :
          SetActiveVersion(complexity, version, user)
    \/ GetVersions
    \/ GetActiveVersions

\* saves and activations, and the views over all categories
ViewSpec == Init /\ [][ViewNext]_vars

---------------------------------------------------------------------------
(* Reads during which the storage medium fails.                            *)

\* the reads of the backend a call makes, any of which the medium may fail
Faults == {"registry", "listing", "metadata", "artifact"}

\* what a failing read raises: open/os.listdir/json.load locally, a boto3
\* client call on S3
StorageError == IF env = "local" THEN "OSError" ELSE "ClientError"

FaultCall(op, args, fault, result) ==
    [op |-> op, args |-> args, at |-> now, result |-> result, fault |-> fault]

\* get_complexity_versions when os.listdir, open or json.load (local), or
\* list_objects_v2 or get_object (S3) fails: `except Exception: return []`
get_complexity_versions_fault(complexity) == <<>>

\* get_version_metadata when the read of the document fails:
\* `except Exception: return None`
get_version_metadata_fault(complexity, version) ==
    LET metadata_path == PathMetadata(complexity, version)
    IN  IF metadata_path.kind = "raise" THEN metadata_path ELSE Return(None)

\* get_active_version: the read of the registry is not guarded; the listing
\* made for an empty pointer is the guarded one of get_complexity_versions
get_active_version_fault(complexity, fault) ==
    IF fault = "registry" THEN Raise(StorageError)
    ELSE Return(get_active_version(complexity, get_complexity_versions_fault(complexity)))

\* _load_model_path when the read of the artifact fails: locally
\* os.path.exists answers False on an OS error and the path is reported as
\* not found, or joblib.load raises; on S3 BytesIO fails before any read
load_model_path_fault ==
    IF env = "local"
    THEN {Raise("FileNotFoundError"), Raise(StorageError)}
    ELSE {Raise("NameError")}

\* get_model: get_active_version, then the load of the version or of the
\* base model
get_model_fault(complexity, fault) ==
    IF fault = "registry" THEN {Raise(StorageError)}
    ELSE IF fault = "listing"
    THEN {get_model(complexity, get_complexity_versions_fault(complexity))}
    ELSE load_model_path_fault

GetComplexityVersionsFault(complexity) ==
    /\ last' = FaultCall("get_complexity_versions", <<complexity>>, "listing",
                         Return(get_complexity_versions_fault(complexity)))
    /\ UNCHANGED store

GetVersionMetadataFault(complexity, version) ==
    /\ last' = FaultCall("get_version_metadata", <<complexity, version>>, "metadata",
                         get_version_metadata_fault(complexity, version))
    /\ UNCHANGED store

\* the listing is read only when the pointer is empty
GetActiveVersionFault(complexity, fault) ==
    /\ fault \in {"registry", "listing"}
    /\ fault = "listing" => ~Truthy(DictGetOr(ActiveVersions, complexity,
                                              [version |-> None]).version)
    /\ last' = FaultCall("get_active_version", <<complexity>>, fault,
                         get_active_version_fault(complexity, fault))
    /\ UNCHANGED store

GetModelFault(complexity, fault) ==
    /\ fault \in {"registry", "listing", "artifact"}
    /\ fault = "listing" => ~Truthy(DictGetOr(ActiveVersions, complexity,
                                              [version |-> None]).version)
    /\ \E result \in get_model_fault(complexity, fault) :
          last' = FaultCall("get_model", <<complexity>>, fault, result)
    /\ UNCHANGED store

FaultNext ==
    \/ \E model \in Models, metadata \in MetadataInputs : SaveModel(model, metadata)
    \/ \E complexity \in CategoryInputs : GetComplexityVersionsFault(complexity)
    \/ \E complexity \in CategoryInputs, version \in Versions :
          GetVersionMetadataFault(complexity, version)
    \/ \E complexity \in CategoryInputs, fault \in Faults :
          GetActiveVersionFault(complexity, fault)
    \/ \E complexity \in CategoryInputs, fault \in Faults :
          GetModelFault(complexity, fault)

\* saves, and reads during which the medium fails
FaultSpec == Init /\ [][FaultNext]_vars

---------------------------------------------------------------------------
(* Registry writers running concurrently: each call reads the document,    *)
(* changes its own copy and later writes the copy back.                    *)

\* set_active_version up to the assignment in the caller's copy: the
\* document is read and the clock is read
SetActiveVersionRead(p, complexity, version, user) ==
    /\ calls[p].pc = "done"
    /\ Cardinality(Pinned(set_active_version(complexity, version, user))) <= MaxPinned
    /\ calls' = [calls EXCEPT ![p] =
                    [op |-> "set_active_version", args |-> <<complexity, version, user>>,
                     pc |-> "read", read |-> ActiveVersions,
                     doc |-> set_active_version(complexity, version, user)]]
    /\ UNCHANGED <<env, models, metadatas, base_models, active_versions_file, now, last, self_path>>

\* a write that assigns the caller's entry in the document as it is now
SetActiveVersionWrite_merging(p) ==
    /\ calls[p].op = "set_active_version"
    /\ calls[p].pc = "read"
    /\ active_versions_file' =
          DictSet(active_versions_file, calls[p].args[1], calls[p].doc[calls[p].args[1]])
    /\ calls' = [calls EXCEPT ![p].pc = "done"]
    /\ UNCHANGED <<env, models, metadatas, base_models, now, last, self_path>>

\* set_active_version, the write: json.dump / put_object of the caller's copy
SetActiveVersionWrite(p) ==
    /\ calls[p].op = "set_active_version"
    /\ calls[p].pc = "read"
    /\ active_versions_file' = calls[p].doc
    /\ calls' = [calls EXCEPT ![p].pc = "done"]
    /\ UNCHANGED <<env, models, metadatas, base_models, now, last, self_path>>

\* set_active_versions_batch up to the end of its loop: the document is read
\* once, the clock is read once
SetActiveVersionsBatchRead(p, versions_dict, user) ==
    /\ calls[p].pc = "done"
    /\ Cardinality(Pinned(set_active_versions_batch(versions_dict, user))) <= MaxPinned
    /\ calls' = [calls EXCEPT ![p] =
                    [op |-> "set_active_versions_batch", args |-> <<versions_dict, user>>,
                     pc |-> "read", read |-> ActiveVersions,
                     doc |-> set_active_versions_batch(versions_dict, user)]]
    /\ UNCHANGED <<env, models, metadatas, base_models, active_versions_file, now, last, self_path>>

\* set_active_versions_batch, the write
SetActiveVersionsBatchWrite(p) ==
    /\ calls[p].op = "set_active_versions_batch"
    /\ calls[p].pc = "read"
    /\ active_versions_file' = calls[p].doc
    /\ calls' = [calls EXCEPT ![p].pc = "done"]
    /\ UNCHANGED <<env, models, metadatas, base_models, now, last, self_path>>

\* the mappings of the concurrent batches
RaceBatchInputs == {b \in BatchInputs : \A c \in DOMAIN b : b[c] = VersionPool[1]}

RaceNext ==
    \/ \E p \in Callers, complexity \in CategoryInputs, version \in Versions, user \in Users :
          SetActiveVersionRead(p, complexity, version, user)
    \/ \E p \in Callers : SetActiveVersionWrite(p)

\* single activations by concurrent callers, step by step
RaceSpec == Init /\ [][RaceNext]_vars

BatchNext ==
    \/ \E p \in Callers, versions_dict \in RaceBatchInputs, user \in Users :
          SetActiveVersionsBatchRead(p, versions_dict, user)
    \/ \E p \in Callers : SetActiveVersionsBatchWrite(p)
    \/ Tick

\* batch activations by concurrent callers, step by step, as the clock
\* advances
BatchSpec == Init /\ [][BatchNext]_vars

---------------------------------------------------------------------------
(* save_model step by step, and its interruption.                          *)

\* a save whose first write is the metadata document
SaveModelArtifact_metadata_first(p, model, metadata) ==
    LET model_path == SaveModelPath(metadata)
    IN  /\ calls[p].pc \in {"done", "stopped"}
        /\ model_path.kind = "return"
        /\ Cardinality(DOMAIN metadatas \cup {model_path.value}) <= MaxSaved
        /\ metadatas' = DictSet(metadatas, SaveMetadataPath(metadata).value, metadata)
        /\ calls' = [calls EXCEPT ![p] =
                        [op |-> "save_model", args |-> <<model, metadata>>,
                         pc |-> "artifact", read |-> <<>>, doc |-> <<>>]]
        /\ UNCHANGED <<env, models, base_models, active_versions_file, now, last, self_path>>

\* a save that writes the metadata document together with the artifact
SaveModelArtifact_with_metadata(p, model, metadata) ==
    LET model_path == SaveModelPath(metadata)
    IN  /\ calls[p].pc \in {"done", "stopped"}
        /\ model_path.kind = "return"
        /\ Cardinality(DOMAIN models \cup {model_path.value}) <= MaxSaved
        /\ models' = DictSet(models, model_path.value, JoblibDump(model))
        /\ metadatas' = DictSet(metadatas, SaveMetadataPath(metadata).value, metadata)
        /\ calls' = [calls EXCEPT ![p] =
                        [op |-> "save_model", args |-> <<model, metadata>>,
                         pc |-> "artifact", read |-> <<>>, doc |-> <<>>]]
        /\ UNCHANGED <<env, base_models, active_versions_file, now, last, self_path>>

\* save_model up to the write of the artifact (joblib.dump / upload_fileobj);
\* without a version the paths cannot be derived and nothing is written
SaveModelArtifact(p, model, metadata) ==
    LET model_path == SaveModelPath(metadata)
    IN  /\ calls[p].pc \in {"done", "stopped"}
        /\ model_path.kind = "return"
        /\ Cardinality(DOMAIN models \cup {model_path.value}) <= MaxSaved
        /\ models' = DictSet(models, model_path.value, JoblibDump(model))
        /\ calls' = [calls EXCEPT ![p] =
                        [op |-> "save_model", args |-> <<model, metadata>>,
                         pc |-> "artifact", read |-> <<>>, doc |-> <<>>]]
        /\ UNCHANGED <<env, metadatas, base_models, active_versions_file, now, last, self_path>>

\* save_model, the write of the metadata document (json.dump / put_object)
SaveModelMetadata(p) ==
    /\ calls[p].op = "save_model"
    /\ calls[p].pc = "artifact"
    /\ metadatas' = DictSet(metadatas, SaveMetadataPath(calls[p].args[2]).value,
                            calls[p].args[2])
    /\ calls' = [calls EXCEPT ![p].pc = "done"]
    /\ UNCHANGED <<env, models, base_models, active_versions_file, now, last, self_path>>

\* the caller dies between the two writes
SaveModelStop(p) ==
    /\ calls[p].op = "save_model"
    /\ calls[p].pc = "artifact"
    /\ calls' = [calls EXCEPT ![p].pc = "stopped"]
    /\ UNCHANGED <<env, models, metadatas, base_models, active_versions_file, now, last, self_path>>

\* the caller that saves models: the retrain job
Retrainer == CHOOSE p \in Callers : TRUE

CrashNext ==
    \/ \E model \in Models, metadata \in MetadataInputs :
          SaveModelArtifact(Retrainer, model, metadata)
    \/ SaveModelMetadata(Retrainer)
    \/ SaveModelStop(Retrainer)
    \/ \E complexity \in CategoryInputs : GetComplexityVersions(complexity)
    \/ \E complexity \in CategoryInputs : GetLatestVersion(complexity)
    \/ \E complexity \in CategoryInputs : GetActiveVersion(complexity)

\* saves that may stop between their two writes, and the listings
CrashSpec == Init /\ [][CrashNext]_vars

LoadNext ==
    \/ \E model \in Models, metadata \in MetadataInputs :
          SaveModelArtifact(Retrainer, model, metadata)
    \/ SaveModelMetadata(Retrainer)
    \/ SaveModelStop(Retrainer)
    \/ \E complexity \in CategoryInputs : GetComplexityVersions(complexity)
    \/ \E complexity \in CategoryInputs : GetModel(complexity)

\* saves that may stop between their two writes, and the loads
LoadSpec == Init /\ [][LoadNext]_vars

---------------------------------------------------------------------------
(* Saves by several callers, one call at a time.                           *)

\* a save_model call that starts while no other save is between its writes
SaveModelAlone(p, model, metadata) ==
    /\ \A q \in Callers : calls[q].pc # "artifact"
    /\ SaveModelArtifact(p, model, metadata)

CollisionNext ==
    \/ \E p \in Callers, model \in Models, metadata \in MetadataInputs :
          SaveModelAlone(p, model, metadata)
    \/ \E p \in Callers : SaveModelMetadata(p)

\* successive saves by the callers of the store
CollisionSpec == Init /\ [][CollisionNext]_vars

---------------------------------------------------------------------------
(* A new VersionManager built on a backend that is already in use.         *)
(* Paths are sequences of their components.                                *)

\* self.filename: f"{self.base_dir}/active_versions.json"
filename == <<"models", "active_versions.json">>

\* Path.active_versions_register: the key the registry is written and read
\* under
active_versions_register == <<"models", "active_versions.json">>

\* StorageManager.base_path: VersionManager.__init__ passes (env, s3_bucket)
\* positionally, so the bucket name arrives as base_path
base_path == <<"bucket">>

\* os.path.join(base_path, filename) / f"{base_path}/{filename}"
JoinPath(base, name) == base \o name

\* the keys of the backend that hold an object
StoredKeys ==
    {active_versions_register}
    \cup {<<"models", k[1], k[2], "model.pkl">> : k \in DOMAIN models}
    \cup {<<"models", k[1], k[2], "metadata.json">> : k \in DOMAIN metadatas}
    \cup {<<"models", d>> : d \in DOMAIN base_models}

\* StorageManager.exists: os.path.exists / head_object of the name joined to
\* base_path
exists(name) == JoinPath(base_path, name) \in StoredKeys

\* VersionManager.__init__ on the backend as it is: _create_version_manager
\* returns when exists(self.filename), else writes the initial document
Construct ==
    /\ active_versions_file' =
          IF exists(filename) THEN active_versions_file ELSE create_version_manager
    /\ last' = Call("__init__", <<>>, Return(None))
    /\ UNCHANGED <<env, models, metadatas, base_models, now, calls, self_path>>

RestartNext ==
    \/ \E complexity \in CategoryInputs, version \in Versions, user \in Users :
          SetActiveVersion(complexity, version, user)
    \/ \E versions_dict \in BatchInputs, user \in Users :
          SetActiveVersionsBatch(versions_dict, user)
    \/ Construct
    \/ \E complexity \in CategoryInputs : GetActiveVersion(complexity)

\* activations, and new instances of the store on the same backend
RestartSpec == Init /\ [][RestartNext]_vars

---------------------------------------------------------------------------
(* Key derivation through self.path, the one Path object every call of the *)
(* manager uses: Path.__call__ stores the pair in the object, and the      *)
(* properties model and metadata read it back.  A call that runs alone     *)
(* stores its pair before every read, which is what PathModel and          *)
(* PathMetadata compute; here callers on several threads take the steps    *)
(* one at a time.                                                          *)

\* Path.__call__(complexity, version)
PathCall(complexity, version) == [complexity |-> complexity, version |-> version]

\* save_model: self.path(complexity, version), of `self.path(...).model`
SavePathCallModel(p, model, metadata) ==
    /\ calls[p].pc = "done"
    /\ self_path' = PathCall(metadata.complexity, metadata.version)
    /\ calls' = [calls EXCEPT ![p] =
                    [op |-> "save_model", args |-> <<model, metadata>>,
                     pc |-> "call_model", read |-> <<>>, doc |-> <<>>]]
    /\ UNCHANGED <<env, models, metadatas, base_models, active_versions_file, now, last>>

\* save_model: the property model, read from the object; ValueError ends the
\* call when the object holds no version
SavePathReadModel(p) ==
    LET model_path == PathModel(self_path.complexity, self_path.version)
    IN  /\ calls[p].op = "save_model"
        /\ calls[p].pc = "call_model"
        /\ calls' = [calls EXCEPT ![p] =
                        IF model_path.kind = "raise" THEN Idle
                        ELSE [@ EXCEPT !.pc = "model", !.doc = <<model_path.value>>]]
        /\ UNCHANGED <<env, models, metadatas, base_models, active_versions_file, now,
                       last, self_path>>

\* save_model: self.path(complexity, version), of `self.path(...).metadata`
SavePathCallMetadata(p) ==
    /\ calls[p].op = "save_model"
    /\ calls[p].pc = "model"
    /\ self_path' = PathCall(calls[p].args[2].complexity, calls[p].args[2].version)
    /\ calls' = [calls EXCEPT ![p].pc = "call_metadata"]
    /\ UNCHANGED <<env, models, metadatas, base_models, active_versions_file, now, last>>

\* save_model: the property metadata, read from the object
SavePathReadMetadata(p) ==
    LET metadata_path == PathMetadata(self_path.complexity, self_path.version)
    IN  /\ calls[p].op = "save_model"
        /\ calls[p].pc = "call_metadata"
        /\ calls' = [calls EXCEPT ![p] =
                        IF metadata_path.kind = "raise" THEN Idle
                        ELSE [@ EXCEPT !.pc = "metadata",
                                       !.doc = @ \o <<metadata_path.value>>]]
        /\ UNCHANGED <<env, models, metadatas, base_models, active_versions_file, now,
                       last, self_path>>

\* save_model: the artifact and the metadata document are written under the
\* two keys that were derived
SavePathWrite(p) ==
    /\ calls[p].op = "save_model"
    /\ calls[p].pc = "metadata"
    /\ Cardinality(DOMAIN models \cup {calls[p].doc[1]}) <= MaxPathSaved
    /\ Cardinality(DOMAIN metadatas \cup {calls[p].doc[2]}) <= MaxPathSaved
    /\ models' = DictSet(models, calls[p].doc[1], JoblibDump(calls[p].args[1]))
    /\ metadatas' = DictSet(metadatas, calls[p].doc[2], calls[p].args[2])
    /\ calls' = [calls EXCEPT ![p] = Idle]
    /\ UNCHANGED <<env, base_models, active_versions_file, now, last, self_path>>

\* the metadata dictionaries the callers pass: two categories, every version
PathInputs == [complexity : {"Alta", "Neonatologia"}, version : Versions \cup {None}]

PathNext ==
    \/ \E p \in Callers, metadata \in PathInputs :
          SavePathCallModel(p, "bytes1", metadata)
    \/ \E p \in Callers : SavePathReadModel(p)
    \/ \E p \in Callers : SavePathCallMetadata(p)
    \/ \E p \in Callers : SavePathReadMetadata(p)
    \/ \E p \in Callers : SavePathWrite(p)

\* saves by callers on several threads of one process
PathSpec == Init /\ [][PathNext]_vars

---------------------------------------------------------------------------
(* Shorthands of the properties.                                           *)

\* the version the registry holds for a name ("" when it holds none)
Pointer(complexity) == DictGetOr(ActiveVersions, complexity, [version |-> <<>>]).version

\* the version identifiers list_versions reports for a name
Listed(complexity) ==
    UNION {{versions[i].version : i \in DOMAIN versions} :
              versions \in get_complexity_versions(complexity)}

\* the step is a call of op
Called(op) == last' # last /\ last'.op = op

\* what get_active_version can return for a name
ActiveReturns(complexity) ==
    {get_active_version(complexity, versions) :
        versions \in get_complexity_versions(complexity)}

---------------------------------------------------------------------------
(* C1  Resolution precedence: whenever the registry pointer of a category  *)
(* holds a non-empty version v, get_active_version of the category returns *)
(* v and get_model returns the artifact stored for (category, v), whatever *)
(* other versions exist and whichever of them is the latest.               *)
C1_ResolutionPrecedence ==
    \A c \in CategoryInputs :
        Truthy(Pointer(c)) =>
            /\ (last.op = "get_active_version" /\ last.args = <<c>>)
                  => last.result = Return(Pointer(c))
            /\ (last.op = "get_model" /\ last.args = <<c>>
                  /\ <<PathDir(c), Pointer(c)>> \in DOMAIN models)
                  => last.result = Return(JoblibLoad(models[<<PathDir(c), Pointer(c)>>]))

C3_RoundTrip ==
    [][(/\ last.op = "save_model"
        /\ Called("get_model")
        /\ last'.args[1] = last.args[2].complexity
        /\ ~Truthy(Pointer(last'.args[1]))
        /\ ListDir(PathDir(last'.args[1])) \subseteq {last.args[2].version})
       => last'.result = Return(last.args[1])]_vars

(* C4  Fallback failure: get_model of a known category with no saved       *)
(* version, an empty pointer and no base artifact raises the not-found     *)
(* error (FileNotFoundError) and nothing else.                             *)
C4_FallbackFailure ==
    (/\ last.op = "get_model"
     /\ PathDir(last.args[1]) \in complexities
     /\ ListDir(PathDir(last.args[1])) = {}
     /\ ~Truthy(Pointer(last.args[1]))
     /\ PathBaseModel(last.args[1]) \notin DOMAIN base_models)
    => last.result = Raise("FileNotFoundError")

(* C5  Fallback to base: get_model of a category with no saved version and *)
(* an empty pointer returns the base artifact when one is stored at the    *)
(* category's base key; the base artifact is returned only when version    *)
(* resolution yields no version.                                           *)
C5_FallbackToBase ==
    last.op = "get_model" =>
        LET c == last.args[1]
        IN  /\ (/\ ListDir(PathDir(c)) = {}
                /\ ~Truthy(Pointer(c))
                /\ PathBaseModel(c) \in DOMAIN base_models)
               => last.result = Return(JoblibLoad(base_models[PathBaseModel(c)]))
            /\ last.result = Return("base")
               => \A versions \in get_complexity_versions(c) :
                     ~Truthy(get_active_version(c, versions))

(* C6  Batch validation: set_active_versions_batch with a mapping in which *)
(* some (category, version) pair names a version that does not exist       *)
(* raises the validation error and leaves every registry entry as it was.  *)
C6_BatchValidation ==
    [][(/\ Called("set_active_versions_batch")
        /\ \E c \in DOMAIN last'.args[1] :
              get_version_metadata(c, last'.args[1][c]) = Return(None))
       => /\ last'.result.kind = "raise"
          /\ active_versions_file' = active_versions_file]_vars

(* C7  Single activation validation: set_active_version(c, v, user) with v *)
(* no existing version of c raises the validation error before any write:  *)
(* the registry is unchanged.                                              *)
C7_ActivationValidation ==
    [][(/\ Called("set_active_version")
        /\ get_version_metadata(last'.args[1], last'.args[2]) = Return(None))
       => /\ last'.result.kind = "raise"
          /\ active_versions_file' = active_versions_file]_vars

(* C8  Version uniqueness and ordering: two successive save_model calls    *)
(* for one category, at least one second apart, yield two distinct version *)
(* identifiers, the later one greater in str order, and list_versions of   *)
(* the category then reports both.                                         *)
C8_VersionOrdering ==
    [][(/\ last.op = "save_model"
        /\ Called("save_model")
        /\ last'.args[2].complexity = last.args[2].complexity
        /\ last'.at >= last.at + 1)
       => /\ last.result.kind = "return"
          /\ last'.result.kind = "return"
          /\ StrLess(last.args[2].version, last'.args[2].version)
          /\ {last.args[2].version, last'.args[2].version}
                \subseteq {k[2] : k \in {x \in DOMAIN metadatas' :
                                           x[1] = PathDir(last.args[2].complexity)}}]_vars

(* C9  Artifact immutability, as stated: once save_model has written the  *)
(* artifact and the metadata of a (category, version) pair, no later store *)
(* operation changes or deletes either.                                    *)
C9_ArtifactImmutable ==
    [][\A k \in DOMAIN models \cap DOMAIN metadatas :
          /\ k \in DOMAIN models' /\ models'[k] = models[k]
          /\ k \in DOMAIN metadatas' /\ metadatas'[k] = metadatas[k]]_vars

(* C9  amended: no store operation deletes the artifact or the metadata of *)
(* a saved pair, and none changes them except a later save_model whose     *)
(* metadata names the same category directory and the same version, which  *)
(* overwrites both.                                                        *)
C9_ImmutableUnlessSavedAgain ==
    [][\A k \in DOMAIN models \cap DOMAIN metadatas :
          /\ k \in DOMAIN models' /\ k \in DOMAIN metadatas'
          /\ (models'[k] # models[k] \/ metadatas'[k] # metadatas[k])
             => /\ Called("save_model")
                /\ last'.result = Return(None)
                /\ k = <<label(last'.args[2].complexity), last'.args[2].version>>]_vars

\* a second pair was saved beside a pair saved earlier
C9_Witness ==
    /\ last.op = "save_model"
    /\ last.result = Return(None)
    /\ Cardinality(DOMAIN models \cap DOMAIN metadatas) = 2

(* C10  Label bijection: the table of real names and labels is one-to-one; *)
(* to_real_name(to_label(c)) = c for every real name c,                    *)
(* to_label(to_real_name(l)) = l for every label l, and to_label raises    *)
(* ValueError on a name the table does not hold.                           *)
C10_LabelBijection ==
    /\ \A i, j \in 1..Len(COMPLEXITY_ITEMS) :
          (COMPLEXITY_ITEMS[i][1] = COMPLEXITY_ITEMS[j][1]
             \/ COMPLEXITY_ITEMS[i][2] = COMPLEXITY_ITEMS[j][2]) => i = j
    /\ last.op = "to_label" =>
          IF \E i \in 1..Len(COMPLEXITY_ITEMS) : COMPLEXITY_ITEMS[i][1] = last.args[1]
          THEN /\ last.result.kind = "return"
               /\ to_real_name(last.result.value) = Return(last.args[1])
          ELSE last.result = Raise("ValueError")
    /\ (last.op = "to_real_name" /\ last.result.kind = "return")
          => to_label(last.result.value) = Return(last.args[1])

\* to_label turned the real name with a tilde into its label
C10_Witness ==
    /\ last.op = "to_label"
    /\ last.args = <<"Neonatología">>
    /\ last.result = Return("Neonatologia")

(* C11  parse_from_api is case-insensitive: for an input that equals a     *)
(* registered label up to letter case it returns the real name of that     *)
(* label; for an input that matches no label in any case it raises         *)
(* ValueError.                                                             *)
C11_ParseCaseInsensitive ==
    last.op = "parse_from_api" =>
        LET matches == {l \in get_all_labels : Lower(l) = Lower(last.args[1])}
        IN  IF matches = {}
            THEN last.result = Raise("ValueError")
            ELSE \E l \in matches : last.result = to_real_name(l)

\* parse_from_api turned a label written in capitals into the real name
\* with a tilde
C11_Witness ==
    /\ last.op = "parse_from_api"
    /\ last.args = <<"NEONATOLOGIA">>
    /\ last.result = Return("Neonatología")

(* C12  is_valid_label returns a boolean for every input and is            *)
(* case-insensitive: TRUE exactly when the input equals a registered label *)
(* up to letter case, FALSE, without raising, otherwise.                   *)
C12_IsValidLabelBoolean ==
    last.op = "is_valid_label" =>
        last.result =
            Return(\E l \in get_all_labels : Lower(l) = Lower(last.args[1]))

(* C13  Registry initialisation: constructing the store on a backend that  *)
(* holds no registry document persists a document with exactly one entry   *)
(* per known category, each with empty version, activated_at and           *)
(* activated_by.                                                           *)
C13_RegistryInitialised ==
    last.op = "__init__" =>
        /\ DOMAIN active_versions_file = get_all_labels
        /\ Cardinality(DOMAIN active_versions_file) = Len(COMPLEXITY_ITEMS)
        /\ \A c \in DOMAIN active_versions_file :
              active_versions_file[c] =
                  [version |-> <<>>, activated_at |-> <<>>, activated_by |-> ""]

\* the store was just constructed for the S3 backend and the document holds
\* the entry of the last category of the table
C13_Witness ==
    /\ last.op = "__init__"
    /\ env = "s3"
    /\ "Maternidad" \in DOMAIN active_versions_file
    /\ ~Truthy(active_versions_file["Maternidad"].version)

(* C14  Backend equivalence: on the same stored contents the S3 backend    *)
(* answers list_versions and get_model as the local backend does: the same *)
(* result or the same error.                                               *)
C14_BackendEquivalence ==
    env = "s3" =>
        /\ last.op = "get_complexity_versions"
              => last.result.value \in LocalVersions(last.args[1])
        /\ last.op = "get_model"
              => \E versions \in LocalVersions(last.args[1]) :
                    LET c == last.args[1]
                        version == get_active_version(c, versions)
                    IN  last.result =
                            IF ~Truthy(version)
                            THEN load_model_path_local(base_models, PathBaseModel(c))
                            ELSE load_model_path_local(models, PathModel(c, version).value)

(* C15  IO errors propagate: when the storage medium fails during a read   *)
(* made by list_versions, get_version_metadata, get_active_version or      *)
(* get_model, the call raises that error; it does not answer "no versions" *)
(* or "no metadata" and does not fall to the latest version or the base    *)
(* model.                                                                  *)
C15_IOErrorsPropagate ==
    "fault" \in DOMAIN last => last.result = Raise(StorageError)

(* C16  Batch post-condition: after set_active_versions_batch(mapping,     *)
(* user) has returned, the registry entry of every category of the mapping *)
(* holds the mapped version with activated_by = user, whether the category *)
(* is named by its real name or by its label; none is skipped.             *)
C16_BatchPostCondition ==
    (last.op = "set_active_versions_batch" /\ last.result.kind = "return") =>
        \A c \in DOMAIN last.args[1] :
            /\ c \in DOMAIN active_versions_file
            /\ active_versions_file[c].version = last.args[1][c]
            /\ active_versions_file[c].activated_by = last.args[2]

C18_LostUpdate ==
    [][\A p \in Callers :
          (/\ calls[p].op = "set_active_version"
           /\ calls[p].pc = "read"
           /\ calls'[p].pc = "done")
          => \A d \in DOMAIN active_versions_file' \ {calls[p].args[1]} :
                /\ d \in DOMAIN calls[p].read
                /\ active_versions_file'[d] = calls[p].read[d]]_vars

\* two calls for different categories read the same document and have both
\* completed; the registry holds the change of one and, for the category of
\* the other, the value from before
C18_Witness ==
    \E p, q \in Callers :
        /\ p # q
        /\ calls[p].op = "set_active_version" /\ calls[p].pc = "done"
        /\ calls[q].op = "set_active_version" /\ calls[q].pc = "done"
        /\ calls[p].args[1] \in get_all_labels
        /\ calls[q].args[1] \in get_all_labels
        /\ calls[p].args[1] # calls[q].args[1]
        /\ calls[p].read = calls[q].read
        /\ active_versions_file[calls[q].args[1]] = calls[q].doc[calls[q].args[1]]
        /\ active_versions_file[calls[p].args[1]] = calls[p].read[calls[p].args[1]]
        /\ active_versions_file[calls[p].args[1]] # calls[p].doc[calls[p].args[1]]

(* C19  Batch is one write: set_active_versions_batch reads the registry   *)
(* once and writes it once; the document a reader finds holds either every *)
(* entry of the mapping or none of them, never some but not all, and the   *)
(* entries of one batch carry one activated_at value.                      *)
C19_BatchOneWrite ==
    [][\A p \in Callers :
          /\ (calls[p].pc = "done" /\ calls'[p].op = "set_active_versions_batch"
                 /\ calls'[p].pc = "read")
             => active_versions_file' = active_versions_file
          /\ (calls[p].op = "set_active_versions_batch" /\ calls[p].pc = "read"
                 /\ calls'[p].pc = "done")
             => LET applied ==
                        {c \in DOMAIN calls[p].args[1] :
                            /\ c \in DOMAIN active_versions_file'
                            /\ active_versions_file'[c].version = calls[p].args[1][c]
                            /\ active_versions_file'[c].activated_by = calls[p].args[2]}
                IN  /\ applied = DOMAIN calls[p].args[1] \/ applied = {}
                    /\ \A c, d \in applied :
                          active_versions_file'[c].activated_at =
                              active_versions_file'[d].activated_at]_vars

(* C20  Orphan artifact, as stated: when save_model has written the        *)
(* artifact and not the metadata document, the version it saves is not     *)
(* returned by list_versions, get_latest_version or get_active_version     *)
(* (empty pointer), and these return what they returned before the save.   *)
C20_OrphanArtifact ==
    [][\A p \in Callers, c \in CategoryInputs, v \in Versions :
          (/\ calls'[p].op = "save_model" /\ calls'[p].pc = "artifact"
           /\ calls[p].pc # "artifact"
           /\ calls'[p].args[2].complexity = c
           /\ calls'[p].args[2].version = v)
          => /\ v \notin Listed(c)'
             /\ \A versions \in get_complexity_versions(c)' :
                   /\ get_latest_version(versions) # v
                   /\ ~Truthy(Pointer(c)) => get_active_version(c, versions)' # v
             /\ \A d \in CategoryInputs :
                   get_complexity_versions(d)' = get_complexity_versions(d)]_vars

(* C20  amended: when save_model has written the artifact and not the      *)
(* metadata document, list_versions, get_latest_version and                *)
(* get_active_version return what they returned before the save; the       *)
(* version it saves is not among their results provided no metadata        *)
(* document of the same category directory and version was saved before.   *)
C20_OrphanUnlessSavedBefore ==
    [][\A p \in Callers, c \in CategoryInputs, v \in Versions :
          (/\ calls'[p].op = "save_model" /\ calls'[p].pc = "artifact"
           /\ calls[p].pc # "artifact"
           /\ calls'[p].args[2].complexity = c
           /\ calls'[p].args[2].version = v)
          => /\ PathMetadata(c, v).value \notin DOMAIN metadatas
                => /\ v \notin Listed(c)'
                   /\ \A versions \in get_complexity_versions(c)' :
                         /\ get_latest_version(versions) # v
                         /\ ~Truthy(Pointer(c)) =>
                               get_active_version(c, versions)' # v
             /\ \A d \in CategoryInputs :
                   get_complexity_versions(d)' = get_complexity_versions(d)]_vars

\* a save stopped after its artifact was written; the listing of its
\* category, asked afterwards, reports the version saved earlier and not the
\* stopped one
C20_Witness ==
    /\ calls[Retrainer].op = "save_model"
    /\ calls[Retrainer].pc = "stopped"
    /\ SaveModelPath(calls[Retrainer].args[2]).value \in DOMAIN models
    /\ SaveMetadataPath(calls[Retrainer].args[2]).value \notin DOMAIN metadatas
    /\ last.op = "get_complexity_versions"
    /\ last.args = <<calls[Retrainer].args[2].complexity>>
    /\ Len(last.result.value) = 1
    /\ last.result.value[1].version # calls[Retrainer].args[2].version

(* C21  Same-second collision: two save_model calls for one category that  *)
(* carry the same version identifier write the same artifact key and the   *)
(* same metadata key; afterwards list_versions of the category has a       *)
(* single entry for the identifier and the stored artifact and metadata    *)
(* are those of the later call.                                            *)
C21_Collision ==
    [][\A p, q \in Callers, c \in CategoryInputs, v \in Versions :
          (/\ p # q
           /\ calls[q].op = "save_model" /\ calls[q].pc = "done"
           /\ calls[p].op = "save_model" /\ calls[p].pc = "artifact"
           /\ calls'[p].pc = "done"
           /\ calls[p].args[2].complexity = c
           /\ calls[p].args[2].version = v
           /\ PathDir(calls[q].args[2].complexity) = PathDir(c)
           /\ calls[q].args[2].version = v)
          => /\ SaveModelPath(calls[p].args[2]) = SaveModelPath(calls[q].args[2])
             /\ SaveMetadataPath(calls[p].args[2]) = SaveMetadataPath(calls[q].args[2])
             /\ models'[PathModel(c, v).value] = JoblibDump(calls[p].args[1])
             /\ metadatas'[PathMetadata(c, v).value] = calls[p].args[2]
             /\ \A versions \in get_complexity_versions(c)' :
                   Cardinality({i \in DOMAIN versions : versions[i].version = v}) = 1]_vars

\* two callers saved different artifacts under one category directory and
\* one version identifier; the backend holds one artifact for the pair, and
\* it is not the artifact of the first caller
C21_Witness ==
    \E p, q \in Callers :
        /\ p # q
        /\ calls[p].op = "save_model" /\ calls[p].pc = "done"
        /\ calls[q].op = "save_model" /\ calls[q].pc = "done"
        /\ SaveModelPath(calls[p].args[2]) = SaveModelPath(calls[q].args[2])
        /\ calls[p].args[1] # calls[q].args[1]
        /\ models[SaveModelPath(calls[p].args[2]).value] = JoblibDump(calls[p].args[1])
        /\ metadatas[SaveMetadataPath(calls[p].args[2]).value] = calls[p].args[2]
        /\ Cardinality(Listed(calls[p].args[2].complexity)) = 1

(* C22  Idempotent initialisation preserves pins: constructing the store   *)
(* when the registry document exists writes nothing; every pointer set by  *)
(* an earlier activation has the same value after the new instance is      *)
(* created.                                                                *)
C22_InitPreservesPins ==
    [][Called("__init__") => active_versions_file' = active_versions_file]_vars

(* C23  Key derivation is pure: the artifact key and the metadata key an   *)
(* operation uses are those of the category and version it was called      *)
(* with, also when calls by other callers interleave with it; it never     *)
(* uses the key of a pair supplied by a different call.                    *)
C23_KeyDerivationPure ==
    \A p \in Callers :
        calls[p].op = "save_model" =>
            \A i \in DOMAIN calls[p].doc :
                calls[p].doc[i] =
                    <<label(calls[p].args[2].complexity), calls[p].args[2].version>>

(* C24  Activation frame: a set_active_version(c, v, user) that runs with  *)
(* no concurrent writer changes only the registry entry of c; the entries  *)
(* of all other categories and all stored artifacts, metadata documents    *)
(* and base artifacts are as they were.                                    *)
C24_ActivationFrame ==
    [][Called("set_active_version") =>
          /\ \A k \in (DOMAIN active_versions_file \cup DOMAIN active_versions_file')
                        \ {last'.args[1]} :
                /\ k \in DOMAIN active_versions_file
                /\ k \in DOMAIN active_versions_file'
                /\ active_versions_file'[k] = active_versions_file[k]
          /\ UNCHANGED <<models, metadatas, base_models>>]_vars

\* an activation has run while another category was pinned and artifacts
\* were stored
C24_Witness ==
    /\ last.op = "set_active_version"
    /\ last.result = Return(None)
    /\ Pointer(last.args[1]) = last.args[2]
    /\ \E k \in DOMAIN active_versions_file :
          k # last.args[1] /\ Truthy(active_versions_file[k].version)
    /\ DOMAIN models # {}
    /\ DOMAIN metadatas # {}

(* C25  Pinned stays pinned: once the pointer of a category is non-empty   *)
(* it is non-empty after every save_model call and every activation,       *)
(* single or batch, with non-empty version arguments; save_model leaves    *)
(* the registry as it was, so get_active_version of a pinned category      *)
(* returns after a save what it returned before.                           *)
C25_PinnedStaysPinned ==
    /\ [][\A c \in CategoryInputs : Truthy(Pointer(c)) => Truthy(Pointer(c)')]_vars
    /\ [][Called("save_model") => active_versions_file' = active_versions_file]_vars
    /\ [](\A c \in CategoryInputs : Truthy(Pointer(c)) => ActiveReturns(c) = {Pointer(c)})

\* a version that sorts after the pinned one has been saved for a pinned
\* category, and another category was activated while it was pinned
C25_Witness ==
    /\ last.op = "save_model"
    /\ last.result = Return(None)
    /\ \E c \in CategoryInputs :
          /\ label(c) = label(last.args[2].complexity)
          /\ Truthy(Pointer(c))
          /\ StrLess(Pointer(c), last.args[2].version)
          /\ last.args[2].version \in Listed(c)
          /\ \E k \in DOMAIN active_versions_file :
                /\ k # c
                /\ Truthy(active_versions_file[k].version)

(* C26  Pointer validity: in every reachable state a non-empty registry    *)
(* pointer of a category names a version that exists for the category,     *)
(* one whose metadata get_version_metadata returns, and get_model of a     *)
(* pinned category does not fail with the not-found error.                 *)
C26_PointerValidity ==
    \A c \in CategoryInputs :
        Truthy(Pointer(c)) =>
            /\ get_version_metadata(c, Pointer(c)).kind = "return"
            /\ get_version_metadata(c, Pointer(c)) # Return(None)
            /\ \A versions \in get_complexity_versions(c) :
                  get_model(c, versions) # Raise("FileNotFoundError")

(* C27  Pointer freshness: get_active_version and get_model read the       *)
(* registry from the backend on every call, so a call that starts after an *)
(* activation has completed resolves against the pointer the backend       *)
(* holds then: get_active_version returns it and get_model loads the       *)
(* artifact it names.                                                      *)
C27_PointerFreshness ==
    [][\A c \in CategoryInputs :
          (/\ c \in DOMAIN active_versions_file
           /\ Truthy(active_versions_file[c].version))
          => /\ (Called("get_active_version") /\ last'.args = <<c>>)
                  => last'.result = Return(active_versions_file[c].version)
             /\ (Called("get_model") /\ last'.args = <<c>>)
                  => last'.result = load_model(c, active_versions_file[c].version)]_vars

\* get_active_version has returned a pointer that is not the latest version
\* of the category
C27_Witness ==
    /\ last.op = "get_active_version"
    /\ last.args[1] \in DOMAIN active_versions_file
    /\ last.result = Return(active_versions_file[last.args[1]].version)
    /\ Truthy(last.result.value)
    /\ \E v \in Listed(last.args[1]) : StrLess(last.result.value, v)

(* C28  Registry key set is closed: after any sequence of single and batch *)
(* activations with arbitrary category arguments the key set of the        *)
(* registry document is the set of known categories; no activation adds a  *)
(* key and none removes one.                                               *)
C28_KeySetClosed == DOMAIN active_versions_file = complexities

(* C29  Category identity: two names that derive the same artifact         *)
(* directory, a canonical name and its API label, select the same registry *)
(* entry, so the version activated under one of them is what               *)
(* get_active_version returns, and get_model loads, under the other.       *)
C29_CategoryIdentity ==
    \A a, b \in CategoryInputs :
        PathDir(a) = PathDir(b) =>
            /\ Pointer(a) = Pointer(b)
            /\ ActiveReturns(a) = ActiveReturns(b)

====
